---- MODULE Spec2Model ----
(***************************************************************************)
(* Dispatch and matching engine of the delivery backend:                   *)
(*   backend/app/services/matching.py  (MatchingService)                   *)
(*   backend/app/routes/trips.py       (delivery lifecycle routes)         *)
(*   backend/app/database/indexes.py   (TTL index on riders.locked_at)     *)
(*   backend/app/services/delivery_fee.py (calculate_delivery_fee)         *)
(*                                                                         *)
(* Every awaited database call is one atomic step; a coroutine may be      *)
(* interleaved with any other between two awaits.  Identifiers are         *)
(* compared by value: a delivery id, rider id or customer id names its     *)
(* document whatever its textual form.                                     *)
(***************************************************************************)
EXTENDS Integers, Sequences, FiniteSets, TLC

VARIABLES
    users,          \* db.users: the set of customer ids that exist
    riders,         \* db.riders: rider id -> document
    deliveries,     \* db.deliveries: sequence of documents, index = _id
    task,           \* _assign_rider_with_lock coroutine of each delivery
    inflight,       \* request_delivery calls between the checks and insert_one
    notifications,  \* db.notifications
    response,       \* what the last finished request_delivery call returned or raised
    now,            \* the wall clock: hour of the day in UTC
    quote           \* what the last calculate_delivery_fee call returned

vars == <<users, riders, deliveries, task, inflight, notifications, response, now, quote>>

None == "none"
NoDelivery == 0      \* the null of a delivery-id field
NoTime == -1         \* the null of a date field
NoQuote ==
    [vehicle_type |-> None, hour |-> 0, base_fee |-> 0, distance_km |-> 0,
     distance_cost |-> 0, surge_multiplier |-> 0, total |-> 0, currency |-> None]

(* ---------------- bounds of the model ---------------- *)
MaxDeliveries == 1
MaxPair == 2
MaxCalls == 4
TickSeconds == 600

(* ---------------- universe ---------------- *)
Riders == {"r1", "r2"}
KnownCustomers == {"c1", "c2"}
UnknownCustomers == {"c9"}
CustomerIds == KnownCustomers \cup UnknownCustomers
LockCustomers == <<"c1", "c2", "c3", "c4", "c5", "c6">>
Vehicles == {"bike", "car"}
Pickups == {0}
ReasonInputs == {None}

(* ---------------- program constants ---------------- *)
max_attempts == 3
BaseRadiusKm == 5
RadiusStepKm == 2
expireAfterSeconds == 600

ACTIVE_REQUEST == {"pending", "rider_assigned", "at_merchant", "picked_up", "in_transit"}
active_statuses == {"pending", "rider_assigned", "at_merchant", "picked_up", "in_transit", "arrived"}

(* ---------------- documents ---------------- *)
Delivery(customer_id, pickup, vehicle_type) ==
    [customer_id |-> customer_id, rider_id |-> None,
     pickup_location |-> pickup, vehicle_type |-> vehicle_type,
     status |-> "pending", cancel_reason |-> None]

\* variant: the loop has made its first attempt when the task is handed over
NewTaskStarted ==
    [pc |-> "sleep", attempt |-> 0, rider |-> None,
     attempted_rider_ids |-> {}, sleeps |-> 0,
     log |-> <<[radius |-> 5, excluded |-> {}, rider |-> None, sleeps |-> 0]>>,
     result |-> None]

NewTask ==
    [pc |-> "find", attempt |-> 0, rider |-> None,
     attempted_rider_ids |-> {}, sleeps |-> 0, log |-> <<>>,
     result |-> None]

Ids == DOMAIN deliveries

(* ---------------- find_and_lock_rider ---------------- *)
Abs(x) == IF x < 0 THEN -x ELSE x

DistanceKm(a, b) == Abs(a - b)

\* variant: the filter does not re-validate the status
LockFilterStale(doc, pickup, vehicle_type, excluded_riders, max_distance_km) ==
    /\ doc.exists
    /\ doc.vehicle_type = vehicle_type
    /\ doc.id \notin excluded_riders
    /\ DistanceKm(doc.location, pickup) <= max_distance_km

LockFilter(doc, pickup, vehicle_type, excluded_riders, max_distance_km) ==
    /\ doc.exists
    /\ doc.status = "available"
    /\ doc.vehicle_type = vehicle_type
    /\ doc.id \notin excluded_riders
    /\ DistanceKm(doc.location, pickup) <= max_distance_km

Matching(pickup, vehicle_type, excluded_riders, max_distance_km) ==
    {r \in Riders :
        LockFilter(riders[r], pickup, vehicle_type, excluded_riders, max_distance_km)}

\* variant: any matching rider, not the nearest
NearestAny(pickup, vehicle_type, excluded_riders, max_distance_km) ==
    Matching(pickup, vehicle_type, excluded_riders, max_distance_km)

Nearest(pickup, vehicle_type, excluded_riders, max_distance_km) ==
    LET M == Matching(pickup, vehicle_type, excluded_riders, max_distance_km)
    IN  {r \in M : \A q \in M :
            DistanceKm(riders[r].location, pickup) <= DistanceKm(riders[q].location, pickup)}

\* variant: the lock is taken without its time
LockUpdateNoTime(doc, delivery_id) ==
    [doc EXCEPT !.status = "busy", !.locked_for_delivery = delivery_id]

LockUpdate(doc, delivery_id) ==
    [doc EXCEPT !.status = "busy", !.locked_for_delivery = delivery_id, !.locked_at = 0]

\* variant: the radius does not grow
SearchRadiusFixed(attempt) == BaseRadiusKm

SearchRadius(attempt) == BaseRadiusKm + (attempt * RadiusStepKm)

(* ---------------- Init ---------------- *)
Rider(r, vehicle_type, location) ==
    [id |-> r, exists |-> TRUE, status |-> "available", vehicle_type |-> vehicle_type,
     location |-> location, locked_for_delivery |-> NoDelivery, locked_at |-> NoTime]

\* the fleet: two bikes, 3 km and 6 km from the pickup point
Fleet == [r \in Riders |-> IF r = "r1" THEN Rider(r, "bike", 3) ELSE Rider(r, "bike", 6)]

Init ==
    /\ users = KnownCustomers
    /\ \E st \in {"available", "offline"} : riders = [Fleet EXCEPT !["r1"].status = st]
    /\ deliveries = <<>>
    /\ task = <<>>
    /\ inflight = [c \in CustomerIds, v \in Vehicles |-> 0]
    /\ notifications = {}
    /\ response = None
    /\ now = 0
    /\ quote = NoQuote

(* ---------------- request_delivery ---------------- *)
\* variant: the customer lookup is skipped
FindUserAny(customer_id) == TRUE

FindUser(customer_id) == customer_id \in users

ActiveDelivery(customer_id) ==
    \E d \in Ids : /\ deliveries[d].customer_id = customer_id
                   /\ deliveries[d].status \in ACTIVE_REQUEST

RECURSIVE SumInflight(_)
SumInflight(calls) ==
    IF calls = {} THEN 0
    ELSE LET x == CHOOSE y \in calls : TRUE
         IN  inflight[x] + SumInflight(calls \ {x})

InflightTotal == SumInflight(CustomerIds \X Vehicles)

RequestPasses(customer_id) == FindUser(customer_id) /\ ~ActiveDelivery(customer_id)

\* room for one more delivery document within the bound of the model
Capacity(cap) == Len(deliveries) + InflightTotal < cap

\* Steps 1 and 2: the customer lookup and the active-delivery lookup.  A call
\* that passes both is suspended in insert_one until RequestInsert.
RequestDelivery(customer_id, vehicle_type) ==
    /\ IF ~FindUser(customer_id)
       THEN /\ response' = "not_found"
            /\ UNCHANGED inflight
       ELSE IF ActiveDelivery(customer_id)
       THEN /\ response' = "conflict"
            /\ UNCHANGED inflight
       ELSE /\ inflight' = [inflight EXCEPT ![customer_id, vehicle_type] = @ + 1]
            /\ UNCHANGED response
    /\ UNCHANGED <<users, riders, deliveries, task, notifications, now, quote>>

\* Steps 4 to 6: insert_one, create_task, return.
RequestInsert(customer_id, vehicle_type, pickup) ==
    /\ inflight[customer_id, vehicle_type] > 0
    /\ inflight' = [inflight EXCEPT ![customer_id, vehicle_type] = @ - 1]
    /\ deliveries' = Append(deliveries, Delivery(customer_id, pickup, vehicle_type))
    /\ task' = Append(task, NewTask)
    /\ response' = "pending"
    /\ UNCHANGED <<users, riders, notifications, now, quote>>

(* ---------------- _assign_rider_with_lock ---------------- *)
LogEntry(t, radius, rider) ==
    [radius |-> radius, excluded |-> t.attempted_rider_ids, rider |-> rider,
     sleeps |-> t.sleeps]

\* One call of find_and_lock_rider: a single find_one_and_update.
LoopFind(d) ==
    /\ d \in Ids
    /\ task[d].pc = "find"
    /\ LET t == task[d]
           del == deliveries[d]
           radius == SearchRadius(t.attempt)
           N == Nearest(del.pickup_location, del.vehicle_type, t.attempted_rider_ids, radius)
       IN  IF N = {}
           THEN /\ task' = [task EXCEPT ![d] = [t EXCEPT !.pc = "sleep",
                                   !.log = Append(@, LogEntry(t, radius, None))]]
                /\ UNCHANGED riders
           ELSE \E r \in N :
                /\ riders' = [riders EXCEPT ![r] = LockUpdate(@, d)]
                /\ task' = [task EXCEPT ![d] = [t EXCEPT !.pc = "commit", !.rider = r,
                                   !.log = Append(@, LogEntry(t, radius, r))]]
    /\ UNCHANGED <<users, deliveries, inflight, notifications, response, now, quote>>

\* variant: the assignment is written whatever the status
CommitFilterAny(doc) == TRUE

CommitFilter(doc) == doc.status = "pending"

\* variant: the assignment writes the rider and leaves the status
CommitUpdateKeepsStatus(doc, rider_id) == [doc EXCEPT !.rider_id = rider_id]

CommitUpdate(doc, rider_id) ==
    [doc EXCEPT !.rider_id = rider_id, !.status = "rider_assigned"]

LoopCommit(d) ==
    /\ d \in Ids
    /\ task[d].pc = "commit"
    /\ IF CommitFilter(deliveries[d])
       THEN /\ deliveries' = [deliveries EXCEPT ![d] = CommitUpdate(@, task[d].rider)]
            /\ task' = [task EXCEPT ![d].pc = "notify_rider"]
       ELSE /\ task' = [task EXCEPT ![d].pc = "release"]
            /\ UNCHANGED deliveries
    /\ UNCHANGED <<users, riders, inflight, notifications, response, now, quote>>

RiderNotification(rider_id, delivery_id) ==
    [type |-> "delivery_request", to |-> rider_id, delivery_id |-> delivery_id]

\* _notify_rider inside the try block: it returns, or it raises and the
\* except branch runs.
LoopNotifyRider(d, ok) ==
    /\ d \in Ids
    /\ task[d].pc = "notify_rider"
    /\ IF ok
       THEN /\ notifications' = notifications \cup {RiderNotification(task[d].rider, d)}
            /\ task' = [task EXCEPT ![d].pc = "done", ![d].result = "assigned"]
       ELSE /\ task' = [task EXCEPT ![d].pc = "release_error"]
            /\ UNCHANGED notifications
    /\ UNCHANGED <<users, riders, deliveries, inflight, response, now, quote>>

ReleaseInline(doc) ==
    [doc EXCEPT !.status = "available", !.locked_for_delivery = NoDelivery]

\* variant: the loop goes on after a rollback
PcAfterReleaseRetry == "sleep"

PcAfterRelease == "done"

LoopRelease(d) ==
    /\ d \in Ids
    /\ task[d].pc \in {"release", "release_error"}
    /\ LET r == task[d].rider
       IN  riders' = IF riders[r].exists
                     THEN [riders EXCEPT ![r] = ReleaseInline(@)]
                     ELSE riders
    /\ task' = [task EXCEPT ![d].pc = PcAfterRelease,
                            ![d].result = IF task[d].pc = "release"
                                          THEN "rolled_back" ELSE "error"]
    /\ UNCHANGED <<users, deliveries, inflight, notifications, response, now, quote>>

\* asyncio.sleep(2) and the loop header
LoopSleep(d) ==
    /\ d \in Ids
    /\ task[d].pc = "sleep"
    /\ task' = [task EXCEPT ![d] =
                  IF task[d].attempt + 1 < max_attempts
                  THEN [@ EXCEPT !.pc = "find", !.attempt = @ + 1, !.rider = None,
                                 !.sleeps = @ + 1]
                  ELSE [@ EXCEPT !.pc = "exhaust", !.sleeps = @ + 1]]
    /\ UNCHANGED <<users, riders, deliveries, inflight, notifications, response, now, quote>>

ExhaustFilter(doc) == TRUE

\* variant: the reason is not written
ExhaustUpdateNoReason(doc) == [doc EXCEPT !.status = "cancelled"]

ExhaustUpdate(doc) ==
    [doc EXCEPT !.status = "cancelled", !.cancel_reason = "no_riders_available"]

LoopExhaust(d) ==
    /\ d \in Ids
    /\ task[d].pc = "exhaust"
    /\ deliveries' = IF ExhaustFilter(deliveries[d])
                     THEN [deliveries EXCEPT ![d] = ExhaustUpdate(@)]
                     ELSE deliveries
    /\ task' = [task EXCEPT ![d].pc = "notify_customer"]
    /\ UNCHANGED <<users, riders, inflight, notifications, response, now, quote>>

CustomerNotification(customer_id) ==
    [type |-> "delivery_update", to |-> customer_id, delivery_id |-> NoDelivery]

LoopNotifyCustomer(d) ==
    /\ d \in Ids
    /\ task[d].pc = "notify_customer"
    /\ notifications' = notifications \cup {CustomerNotification(deliveries[d].customer_id)}
    /\ task' = [task EXCEPT ![d].pc = "done", ![d].result = "exhausted"]
    /\ UNCHANGED <<users, riders, deliveries, inflight, response, now, quote>>

LoopAction(d) ==
    \/ LoopFind(d)
    \/ LoopCommit(d)
    \/ \E ok \in BOOLEAN : LoopNotifyRider(d, ok)
    \/ LoopRelease(d)
    \/ LoopSleep(d)
    \/ LoopExhaust(d)
    \/ LoopNotifyCustomer(d)

(* ---------------- routes/trips.py ---------------- *)
merchant_id == ""

\* variant: the accept writes the status without the rider
AcceptUpdateNoRider(doc, u) == [doc EXCEPT !.status = "rider_assigned"]

AcceptUpdate(doc, u) ==
    [doc EXCEPT !.rider_id = u, !.status = "rider_assigned"]

\* accept_delivery: find_one, the status check, update_one.
AcceptDelivery(u, d) ==
    /\ u \in Riders
    /\ d \in Ids
    /\ deliveries[d].status = "pending"
    /\ deliveries' = [deliveries EXCEPT ![d] = AcceptUpdate(@, u)]
    /\ UNCHANGED <<users, riders, task, inflight, notifications, response, now, quote>>

\* accept_delivery whose update_one lands after other writers ran: find_one
\* returned the document while it was pending (every delivery is inserted
\* pending), and update_one filters on _id alone.
AcceptDeliveryLate(u, d) ==
    /\ u \in Riders
    /\ d \in Ids
    /\ deliveries' = [deliveries EXCEPT ![d] = AcceptUpdate(@, u)]
    /\ UNCHANGED <<users, riders, task, inflight, notifications, response, now, quote>>

RiderStatuses == {"at_merchant", "picked_up", "in_transit", "arrived", "delivered"}

\* arrived_at_merchant, order_picked_up, start_delivery, arrived_at_delivery,
\* complete_delivery: the caller must be the delivery's rider
RiderStatusUpdate(u, d, status) ==
    /\ u \in Riders
    /\ d \in Ids
    /\ deliveries[d].rider_id = u
    /\ deliveries' = [deliveries EXCEPT ![d].status = status]
    /\ UNCHANGED <<users, riders, task, inflight, notifications, response, now, quote>>

CancelReason(reason) == IF reason # None THEN reason ELSE "cancelled_by_user"

CancelUpdate(doc, reason) ==
    [doc EXCEPT !.status = "cancelled", !.cancel_reason = CancelReason(reason)]

\* cancel_delivery: find_one, the checks, update_one.
CancelDelivery(u, d, reason) ==
    /\ d \in Ids
    /\ \/ deliveries[d].customer_id = u
       \/ deliveries[d].rider_id = u
       \/ merchant_id = u
    /\ deliveries[d].status # "delivered"
    /\ deliveries' = [deliveries EXCEPT ![d] = CancelUpdate(@, reason)]
    /\ UNCHANGED <<users, riders, task, inflight, notifications, response, now, quote>>

\* cancel_delivery of the customer whose update_one lands after other writers
\* ran: find_one returned the document before it was delivered, and update_one
\* filters on _id alone.
CancelDeliveryLate(d, reason) ==
    /\ d \in Ids
    /\ deliveries' = [deliveries EXCEPT ![d] = CancelUpdate(@, reason)]
    /\ UNCHANGED <<users, riders, task, inflight, notifications, response, now, quote>>

(* ---------------- TTL index on riders.locked_at ---------------- *)
\* locked_at is kept as the number of seconds elapsed since the lock was
\* taken (0 when it is set to the current time); ages past the expiry are
\* not told apart.
Min(a, b) == IF a < b THEN a ELSE b

Older(doc) ==
    IF doc.exists /\ doc.locked_at # NoTime
    THEN [doc EXCEPT !.locked_at = Min(@ + TickSeconds, expireAfterSeconds)]
    ELSE doc

Tick ==
    /\ \E r \in Riders : Older(riders[r]) # riders[r]
    /\ riders' = [r \in Riders |-> Older(riders[r])]
    /\ UNCHANGED <<users, deliveries, task, inflight, notifications, response, now, quote>>

Expired(doc) ==
    /\ doc.exists
    /\ doc.locked_at # NoTime
    /\ doc.locked_at >= expireAfterSeconds

DeletedRider(r) ==
    [id |-> r, exists |-> FALSE, status |-> None, vehicle_type |-> None, location |-> 0,
     locked_for_delivery |-> NoDelivery, locked_at |-> NoTime]

\* the TTL monitor deletes a document whose indexed date has expired
TTLExpire(r) ==
    /\ Expired(riders[r])
    /\ riders' = [riders EXCEPT ![r] = DeletedRider(r)]
    /\ UNCHANGED <<users, deliveries, task, inflight, notifications, response, now, quote>>

(* ---------------- release_rider ---------------- *)
\* variant: the lock time is kept, as in the release inside the loop
ReleaseUpdateKeepsTime(doc) ==
    [doc EXCEPT !.status = "available", !.locked_for_delivery = NoDelivery]

ReleaseUpdate(doc) ==
    [doc EXCEPT !.status = "available", !.locked_for_delivery = NoDelivery,
                !.locked_at = NoTime]

\* release_rider: one update_one filtered on _id; a filter that matches no
\* document updates nothing and raises nothing.
ReleaseRider(r) ==
    /\ r \in Riders
    /\ riders' = [riders EXCEPT ![r] = IF @.exists THEN ReleaseUpdate(@) ELSE @]
    /\ UNCHANGED <<users, deliveries, task, inflight, notifications, response, now, quote>>

(* ---------------- routes/websocket.py: the rider's connection ---------------- *)
StatusMessages == {"available", "busy", "offline", "break"}

\* rider_websocket writes status alone: available on connect, the status of a
\* status_update message, offline on disconnect.
HeartbeatUpdate(doc, status) == [doc EXCEPT !.status = status]

RiderStatusWrite(r, status) ==
    /\ r \in Riders
    /\ status \in StatusMessages
    /\ riders[r].exists
    /\ riders[r].status # status
    /\ riders' = [riders EXCEPT ![r] = HeartbeatUpdate(@, status)]
    /\ UNCHANGED <<users, deliveries, task, inflight, notifications, response, now, quote>>

(* ---------------- specifications ---------------- *)
\* One delivery at a time, every operation and every input.
Next ==
    \/ \E c \in CustomerIds, v \in Vehicles :
          (RequestPasses(c) => Capacity(MaxDeliveries)) /\ RequestDelivery(c, v)
    \/ \E c \in CustomerIds, v \in Vehicles, p \in Pickups : RequestInsert(c, v, p)
    \/ \E d \in Ids : LoopFind(d)
    \/ \E d \in Ids : LoopCommit(d)
    \/ \E d \in Ids, ok \in BOOLEAN : LoopNotifyRider(d, ok)
    \/ \E d \in Ids : LoopRelease(d)
    \/ \E d \in Ids : LoopSleep(d)
    \/ \E d \in Ids : LoopExhaust(d)
    \/ \E d \in Ids : LoopNotifyCustomer(d)
    \/ \E u \in Riders, d \in Ids : AcceptDelivery(u, d)
    \/ \E u \in Riders, d \in Ids : AcceptDeliveryLate(u, d)
    \/ \E u \in Riders, d \in Ids, s \in RiderStatuses : RiderStatusUpdate(u, d, s)
    \/ \E u \in KnownCustomers \cup Riders, d \in Ids, reason \in ReasonInputs :
          CancelDelivery(u, d, reason)
    \/ \E d \in Ids, reason \in ReasonInputs : CancelDeliveryLate(d, reason)
    \/ Tick
    \/ \E r \in Riders : TTLExpire(r)
    \/ \E r \in Riders : ReleaseRider(r)
    \/ \E r \in Riders, s \in StatusMessages : RiderStatusWrite(r, s)

Spec == Init /\ [][Next]_vars

\* The same with the scheduling the runtime gives: the event loop runs every
\* step of a created task that is ready, time passes, and the TTL monitor
\* deletes every expired document. Route handlers and release_rider run only
\* when somebody calls them.
Fairness ==
    /\ WF_vars(\E d \in Ids : LoopAction(d))
    /\ WF_vars(Tick)
    /\ WF_vars(\E r \in Riders : TTLExpire(r))

SpecLive == Init /\ [][Next]_vars /\ Fairness

\* Two deliveries side by side: one registered rider, bike requests,
\* route handlers whose reads and writes are not interleaved.
PairRiders == {"r1"}

InitPair ==
    /\ users = KnownCustomers
    /\ riders = [r \in Riders |-> IF r \in PairRiders THEN Fleet[r] ELSE DeletedRider(r)]
    /\ deliveries = <<>>
    /\ task = <<>>
    /\ inflight = [c \in CustomerIds, v \in Vehicles |-> 0]
    /\ notifications = {}
    /\ response = None
    /\ now = 0
    /\ quote = NoQuote

NextPair ==
    \/ \E c \in KnownCustomers :
          (RequestPasses(c) => Capacity(MaxPair)) /\ RequestDelivery(c, "bike")
    \/ \E c \in CustomerIds, p \in Pickups : RequestInsert(c, "bike", p)
    \/ \E d \in Ids : LoopFind(d)
    \/ \E d \in Ids : LoopCommit(d)
    \/ \E d \in Ids, ok \in BOOLEAN : LoopNotifyRider(d, ok)
    \/ \E d \in Ids : LoopRelease(d)
    \/ \E d \in Ids : LoopSleep(d)
    \/ \E d \in Ids : LoopExhaust(d)
    \/ \E d \in Ids : LoopNotifyCustomer(d)
    \/ \E u \in PairRiders, d \in Ids : AcceptDelivery(u, d)
    \/ \E u \in PairRiders, d \in Ids, s \in RiderStatuses : RiderStatusUpdate(u, d, s)
    \/ \E u \in KnownCustomers, d \in Ids, reason \in ReasonInputs :
          CancelDelivery(u, d, reason)
    \/ Tick
    \/ \E r \in Riders : TTLExpire(r)

SpecPair == InitPair /\ [][NextPair]_vars

\* Concurrent find_and_lock_rider calls of different deliveries, all aimed at
\* the one rider that passes the filter.
LockOthers(r, v) ==
    {[Rider(r, v, 6) EXCEPT !.status = "offline"],
     Rider(r, IF v = "bike" THEN "car" ELSE "bike", 6),
     Rider(r, v, 12),
     DeletedRider(r)}

InitLock ==
    /\ users = {LockCustomers[k] : k \in 1..MaxCalls}
    /\ \E n \in 2..MaxCalls, vt \in Vehicles :
          /\ \E other \in LockOthers("r2", vt) :
                riders = [r \in Riders |-> IF r = "r1" THEN Rider(r, vt, 3) ELSE other]
          /\ deliveries = [k \in 1..n |-> Delivery(LockCustomers[k], 0, vt)]
          /\ task = [k \in 1..n |-> NewTask]
    /\ inflight = [c \in CustomerIds, v \in Vehicles |-> 0]
    /\ notifications = {}
    /\ response = None
    /\ now = 0
    /\ quote = NoQuote

NextLock == \E d \in Ids : LoopFind(d)

SpecLock == InitLock /\ [][NextLock]_vars

(***************************************************************************)
(* Properties                                                              *)
(***************************************************************************)
\* find_and_lock_rider on its own: calls with every exclusion list and every
\* radius of the loop, on riders in every status, vehicle type and distance.
MaxFind == 2
FindStatuses == {"available", "busy", "offline"}
FindLocations == {3, 6, 12}

FindRiders(r) ==
    {[Rider(r, v, l) EXCEPT !.status = st] :
        v \in Vehicles, l \in FindLocations, st \in FindStatuses} \cup {DeletedRider(r)}

FindTasks ==
    {[NewTask EXCEPT !.attempt = a, !.sleeps = a, !.attempted_rider_ids = ex] :
        a \in 0..(max_attempts - 1), ex \in SUBSET Riders}

InitFind ==
    /\ users = KnownCustomers
    /\ riders \in [Riders -> UNION {FindRiders(r) : r \in Riders}]
    /\ \A r \in Riders : riders[r] \in FindRiders(r)
    /\ \E n \in 1..MaxFind, vt \in Vehicles :
          /\ deliveries = [k \in 1..n |-> Delivery(LockCustomers[k], 0, vt)]
          /\ task \in [1..n -> FindTasks]
    /\ inflight = [c \in CustomerIds, v \in Vehicles |-> 0]
    /\ notifications = {}
    /\ response = None
    /\ now = 0
    /\ quote = NoQuote

NextFind == \E d \in Ids : LoopFind(d)

SpecFind == InitFind /\ [][NextFind]_vars

(* ---------------- services/delivery_fee.py ---------------- *)
\* Amounts are in cents, distances in half kilometres, the surge multiplier in
\* tenths; with these units every amount of the calculation is a whole number.
BASE_FEE == 2000
PER_KM_RATE == 500
MIN_FEE == 1500
LONG_DISTANCE_KM == 15
LONG_DISTANCE_RATE == 700
MAX_FEE == 20000
SURGE_HOURS_SAST == {7, 8, 17, 18, 19}
SURGE_MULTIPLIER == 13
NoSurge == 10

VEHICLE_BASE ==
    [bike |-> BASE_FEE, car |-> BASE_FEE + 1000, bicycle |-> BASE_FEE - 500,
     walking |-> BASE_FEE - 800]

FareVehicles == {"bike", "car", "bicycle", "walking", "truck"}
MaxDistance == 32
Distances == 0..MaxDistance
Hours == 0..23

\* variant: the surge hours are read off the UTC clock
UtcHour(utc_hour) == utc_hour

\* datetime.now(SAST).hour: Africa/Johannesburg is UTC+2 the whole year
SastHour(utc_hour) == (utc_hour + 2) % 24

is_surge_time == SastHour(now) \in SURGE_HOURS_SAST

Max(a, b) == IF a > b THEN a ELSE b

\* variant: a zero distance is charged as a kilometre
DistanceCostFloorKm(distance) ==
    IF distance = 0 THEN PER_KM_RATE
    ELSE IF distance <= LONG_DISTANCE_KM
    THEN distance * PER_KM_RATE
    ELSE (LONG_DISTANCE_KM * PER_KM_RATE)
         + ((distance - LONG_DISTANCE_KM) * LONG_DISTANCE_RATE)

\* variant: past the threshold only the long-distance part is charged
DistanceCostLongOnly(distance) ==
    IF distance <= LONG_DISTANCE_KM
    THEN distance * PER_KM_RATE
    ELSE (distance - LONG_DISTANCE_KM) * LONG_DISTANCE_RATE

DistanceCost(distance) ==
    IF distance <= LONG_DISTANCE_KM
    THEN distance * PER_KM_RATE
    ELSE (LONG_DISTANCE_KM * PER_KM_RATE)
         + ((distance - LONG_DISTANCE_KM) * LONG_DISTANCE_RATE)

\* variant: the total is not clamped
TotalUnclamped(base, distance_cost, surge) == ((base + distance_cost) * surge) \div 10

Total(base, distance_cost, surge) ==
    Max(MIN_FEE, Min(MAX_FEE, ((base + distance_cost) * surge) \div 10))

calculate_delivery_fee(distance, vehicle_type) ==
    LET base == IF vehicle_type \in DOMAIN VEHICLE_BASE
                THEN VEHICLE_BASE[vehicle_type] ELSE BASE_FEE
        distance_cost == DistanceCost(distance)
        surge == IF is_surge_time THEN SURGE_MULTIPLIER ELSE NoSurge
    IN  [vehicle_type |-> vehicle_type, hour |-> now,
         base_fee |-> base, distance_km |-> distance, distance_cost |-> distance_cost,
         surge_multiplier |-> surge, total |-> Total(base, distance_cost, surge),
         currency |-> "ZAR"]

\* One call of calculate_fare; distance is haversine_km of the two points, in
\* whole kilometres; amounts are in cents and the multiplier in tenths.
CalculateFare(distance, vehicle_type) ==
    /\ quote' = calculate_delivery_fee(distance, vehicle_type)
    /\ UNCHANGED <<users, riders, deliveries, task, inflight, notifications, response, now>>

\* an hour passes
ClockTick ==
    /\ now' = (now + 1) % 24
    /\ UNCHANGED <<users, riders, deliveries, task, inflight, notifications, response, quote>>

InitFare ==
    /\ users = KnownCustomers
    /\ riders = Fleet
    /\ deliveries = <<>>
    /\ task = <<>>
    /\ inflight = [c \in CustomerIds, v \in Vehicles |-> 0]
    /\ notifications = {}
    /\ response = None
    /\ now \in Hours
    /\ quote = NoQuote

NextFare ==
    \/ \E distance \in Distances, v \in FareVehicles : CalculateFare(distance, v)
    \/ ClockTick

SpecFare == InitFare /\ [][NextFare]_vars

Status(d) == deliveries[d].status

LockedFor(r, d) ==
    /\ riders[r].exists
    /\ riders[r].status = "busy"
    /\ riders[r].locked_for_delivery = d

\* C1: when N >= 2 concurrent find_and_lock_rider calls of different deliveries
\* aim at one available rider, at most one of them holds the rider at any
\* time, and once all have returned exactly one call got the rider, who is
\* busy and locked for that call's delivery, and every other call got no match.
C1_ExactlyOneLock ==
    /\ \A r \in Riders :
          Cardinality({d \in Ids : task[d].rider = r}) <= 1
    /\ (Len(deliveries) >= 2 /\ \A d \in Ids : task[d].pc # "find") =>
          \E d \in Ids :
             /\ task[d].rider \in Riders
             /\ task[d].pc = "commit"
             /\ LockedFor(task[d].rider, d)
             /\ \A e \in Ids \ {d} :
                   /\ task[e].rider = None
                   /\ task[e].pc = "sleep"
                   /\ task[e].log[1].rider = None

C1_Witness ==
    /\ Len(deliveries) >= 3
    /\ \A d \in Ids : task[d].pc # "find"
    /\ \E d \in Ids : LockedFor("r1", d)

\* C2: no rider is reserved for (locked for, or assigned as rider_id of) more
\* than one delivery in an active status at the same time.
Reserved(r, d) == deliveries[d].rider_id = r \/ LockedFor(r, d)

C2_NoDoubleReservation ==
    \A r \in Riders :
        Cardinality({d \in Ids : Status(d) \in active_statuses /\ Reserved(r, d)}) <= 1

\* C3: each customer has at most one delivery in an active status.
C3_OneActivePerCustomer ==
    \A c \in CustomerIds :
        Cardinality({d \in Ids : deliveries[d].customer_id = c
                                 /\ Status(d) \in active_statuses}) <= 1

\* C4: a request_delivery call of a customer who has a delivery in an active
\* status (arrived included) is rejected with the conflict error and neither
\* creates a delivery nor starts an assignment task.
HasActiveDelivery(c) ==
    \E d \in Ids : deliveries[d].customer_id = c /\ Status(d) \in active_statuses

C4_ActiveCustomerRejected ==
    [][\A c \in CustomerIds, v \in Vehicles :
          (HasActiveDelivery(c) /\ RequestDelivery(c, v)) =>
              /\ response' = "conflict"
              /\ UNCHANGED <<deliveries, task, inflight>>]_vars

C6_CommitOnlyWhilePending ==
    [][\A d \in Ids :
          /\ LoopAction(d) =>
                /\ (deliveries'[d].rider_id # deliveries[d].rider_id
                      \/ (Status(d)' = "rider_assigned" /\ Status(d) # "rider_assigned"))
                   => Status(d) = "pending"
                /\ Status(d) = "cancelled" =>
                      /\ Status(d)' = "cancelled"
                      /\ deliveries'[d].rider_id = deliveries[d].rider_id
          /\ Status(d) = "cancelled" => Status(d)' # "pending"]_vars

C6_Witness ==
    \E d \in Ids :
        /\ task[d].result = "rolled_back"
        /\ Status(d) = "cancelled"
        /\ deliveries[d].rider_id = None
        /\ deliveries[d].cancel_reason = "cancelled_by_user"

\* C7: the release that follows a failed pending -> rider_assigned write leaves
\* the rider available with locked_for_delivery and locked_at both cleared.
C7_RollbackClearsLock ==
    [][\A d \in Ids :
          (task[d].pc = "release" /\ LoopRelease(d)) =>
              LET r == task[d].rider
              IN  /\ riders'[r].status = "available"
                  /\ riders'[r].locked_for_delivery = NoDelivery
                  /\ riders'[r].locked_at = NoTime]_vars

\* C8: after three find_and_lock_rider attempts without a match the loop
\* writes status cancelled with reason no_riders_available, and when it has
\* finished a notification for the customer is recorded.
NoMatchThrice(d) ==
    /\ Len(task[d].log) = 3
    /\ \A k \in 1..3 : task[d].log[k].rider = None

C8_ExhaustionCancels ==
    /\ [](\A d \in Ids :
            /\ NoMatchThrice(d) => task[d].pc \in {"sleep", "exhaust", "notify_customer", "done"}
            /\ (NoMatchThrice(d) /\ task[d].pc = "done") =>
                  [type |-> "delivery_update", to |-> deliveries[d].customer_id,
                   delivery_id |-> NoDelivery] \in notifications)
    /\ [][\A d \in Ids :
            (NoMatchThrice(d) /\ task[d].pc = "exhaust" /\ task'[d].pc # "exhaust") =>
                /\ Status(d)' = "cancelled"
                /\ deliveries'[d].cancel_reason = "no_riders_available"]_vars

C8_Witness ==
    \E d \in Ids :
        /\ NoMatchThrice(d)
        /\ task[d].pc = "done"
        /\ Status(d) = "cancelled"
        /\ deliveries[d].cancel_reason = "no_riders_available"
        /\ \E n \in notifications : n.type = "delivery_update" /\ n.to = deliveries[d].customer_id

\* C9: a loop makes at most 3 attempts, the k-th with radius 5 + 2*(k-1) km,
\* and makes the k-th only after k-1 attempts without a match and k-1
\* completed backoff waits.
C9_AttemptsAndRadius ==
    \A d \in Ids :
        /\ Len(task[d].log) <= 3
        /\ \A k \in 1..Len(task[d].log) :
              /\ task[d].log[k].radius = 5 + 2 * (k - 1)
              /\ task[d].log[k].sleeps = k - 1
              /\ \A j \in 1..(k - 1) : task[d].log[j].rider = None

C9_Witness ==
    \E d \in Ids :
        /\ Len(task[d].log) = 3
        /\ task[d].log[3].radius = 9

C11_ReleaseIdempotent ==
    [][\A r \in Riders :
          (riders[r].exists /\ ReleaseRider(r)) =>
              /\ riders'[r].status = "available"
              /\ riders'[r].locked_for_delivery = NoDelivery
              /\ riders'[r].locked_at = NoTime
              /\ riders'[r] = [riders[r] EXCEPT !.status = "available",
                                                !.locked_for_delivery = NoDelivery,
                                                !.locked_at = NoTime]
              /\ ReleaseUpdate(riders'[r]) = riders'[r]]_vars

C11_Witness ==
    \E d \in Ids :
        /\ task[d].pc = "commit"
        /\ task[d].rider \in Riders
        /\ riders[task[d].rider].exists
        /\ riders[task[d].rider].status = "available"
        /\ riders[task[d].rider].locked_for_delivery = NoDelivery
        /\ riders[task[d].rider].locked_at = NoTime

\* C12: the sweep of a lock older than the staleness threshold keeps the
\* rider's record and leaves it available with the lock fields cleared.
C12_SweepReleases ==
    [][\A r \in Riders :
          (Expired(riders[r]) /\ TTLExpire(r)) =>
              /\ riders'[r].exists
              /\ riders'[r].status = "available"
              /\ riders'[r].locked_for_delivery = NoDelivery
              /\ riders'[r].locked_at = NoTime]_vars

\* C13: a rider whose locked_for_delivery is set is busy and has locked_at
\* set (every busy status that a lock causes is written together with
\* locked_for_delivery by find_and_lock_rider).
C13_LockFieldsAgree ==
    \A r \in Riders :
        (riders[r].exists /\ riders[r].locked_for_delivery # NoDelivery) =>
            /\ riders[r].status = "busy"
            /\ riders[r].locked_at # NoTime

\* C14: a rider action (at-merchant, picked-up, in-transit, arrived, complete)
\* changes a delivery's status only along the table rider_assigned ->
\* at_merchant -> picked_up -> in_transit -> arrived -> delivered; any other
\* pair of current status and requested status leaves the status as it is.
TableStep(from, to) ==
    \/ from = "pending" /\ to = "rider_assigned"
    \/ from = "rider_assigned" /\ to = "at_merchant"
    \/ from = "at_merchant" /\ to = "picked_up"
    \/ from = "picked_up" /\ to = "in_transit"
    \/ from = "in_transit" /\ to = "arrived"
    \/ from = "arrived" /\ to = "delivered"
    \/ from \in {"pending", "rider_assigned", "at_merchant"} /\ to = "cancelled"

C14_OnlyTableTransitions ==
    [][\A u \in Riders, d \in Ids, s \in RiderStatuses :
          RiderStatusUpdate(u, d, s) => TableStep(Status(d), s)]_vars

\* C15: a delivery whose status is delivered or cancelled keeps that status
\* in every later step.
C15_TerminalStatesFinal ==
    [][\A d \in Ids :
          Status(d) \in {"delivered", "cancelled"} => Status(d)' = Status(d)]_vars

\* C16: a cancel request changes a delivery only while its status is pending,
\* rider_assigned or at_merchant.
C16_CancelOnlyBeforePickup ==
    [][\A u \in KnownCustomers \cup Riders, d \in Ids, reason \in ReasonInputs :
          CancelDelivery(u, d, reason) =>
              Status(d) \in {"pending", "rider_assigned", "at_merchant"}]_vars

\* C17: a pending delivery has no rider_id, and a delivery that is
\* rider_assigned, at_merchant, picked_up, in_transit, arrived or delivered
\* has one.
C17_RiderIffPastPending ==
    \A d \in Ids :
        /\ Status(d) = "pending" => deliveries[d].rider_id = None
        /\ Status(d) \in {"rider_assigned", "at_merchant", "picked_up", "in_transit",
                          "arrived", "delivered"} => deliveries[d].rider_id \in Riders

C17_Witness ==
    \E d \in Ids :
        /\ Status(d) = "delivered"
        /\ deliveries[d].rider_id \in Riders
        /\ task[d].pc = "done"
        /\ task[d].rider = deliveries[d].rider_id

\* C18: the write of an accept lands only on a delivery that is still
\* pending, and the write of a cancel only on a delivery that is still not
\* delivered: the status each was validated against.
C18_WritesConditional ==
    [][\A d \in Ids :
          /\ \A u \in Riders : AcceptDeliveryLate(u, d) => Status(d) = "pending"
          /\ \A reason \in ReasonInputs :
                CancelDeliveryLate(d, reason) => Status(d) # "delivered"]_vars

\* C19: request_delivery inserts the delivery pending, hands the assignment
\* loop over before its first find_and_lock_rider call and answers pending in
\* the same step; no rider is touched and the answer waits for no step of the
\* loop.
C19_RequestDoesNotWait ==
    [][\A c \in CustomerIds, v \in Vehicles, p \in Pickups :
          RequestInsert(c, v, p) =>
              LET d == Len(deliveries) + 1
              IN  /\ Len(deliveries') = d
                  /\ deliveries'[d].customer_id = c
                  /\ deliveries'[d].status = "pending"
                  /\ deliveries'[d].rider_id = None
                  /\ Len(task') = d
                  /\ task'[d].pc = "find"
                  /\ task'[d].log = <<>>
                  /\ response' = "pending"
                  /\ riders' = riders]_vars

C19_Witness ==
    /\ response = "pending"
    /\ \E d \in Ids :
          /\ Status(d) = "pending"
          /\ task[d].pc = "find"
          /\ task[d].log = <<>>

\* C20: a find_and_lock_rider call returns a rider exactly when some rider is
\* available, of the requested vehicle type, outside the exclusion list and
\* within the radius; the rider returned met the four conditions when it was
\* locked, no rider meeting them was nearer, and it is locked for the call's
\* delivery.
C20_FindAndLockCorrect ==
    [][\A d \in Ids :
          (task[d].pc = "find" /\ LoopFind(d)) =>
              LET call == task'[d].log[Len(task'[d].log)]
                  del == deliveries[d]
                  Dist(q) == IF riders[q].location < del.pickup_location
                             THEN del.pickup_location - riders[q].location
                             ELSE riders[q].location - del.pickup_location
                  Ok(q) == /\ riders[q].exists
                           /\ riders[q].status = "available"
                           /\ riders[q].vehicle_type = del.vehicle_type
                           /\ q \notin call.excluded
                           /\ Dist(q) <= call.radius
              IN  /\ (call.rider # None) <=> (\E q \in Riders : Ok(q))
                  /\ call.rider # None =>
                        /\ Ok(call.rider)
                        /\ \A q \in Riders : Ok(q) => Dist(call.rider) <= Dist(q)
                        /\ riders'[call.rider].status = "busy"
                        /\ riders'[call.rider].locked_for_delivery = d]_vars

C20_Witness ==
    \E d \in Ids, r \in Riders, q \in Riders :
        /\ task[d].pc = "commit"
        /\ task[d].rider = r
        /\ q # r
        /\ riders[q].exists
        /\ riders[q].status = "available"
        /\ riders[q].vehicle_type = riders[r].vehicle_type
        /\ riders[q].location > riders[r].location
        /\ riders[q].location <= task[d].log[1].radius
        /\ q \notin task[d].log[1].excluded

\* C21: a find_and_lock_rider call that returns a rider changes that rider
\* alone, to status busy with locked_for_delivery the call's delivery and
\* locked_at set, and a call that returns no rider changes no rider.
C21_FindAndLockFrame ==
    [][\A d \in Ids :
          (task[d].pc = "find" /\ LoopFind(d)) =>
              LET got == task'[d].log[Len(task'[d].log)].rider
              IN  IF got = None
                  THEN riders' = riders
                  ELSE /\ riders'[got].status = "busy"
                       /\ riders'[got].locked_for_delivery = d
                       /\ riders'[got].locked_at # NoTime
                       /\ \A f \in {"id", "exists", "vehicle_type", "location"} :
                             riders'[got][f] = riders[got][f]
                       /\ \A q \in Riders \ {got} : riders'[q] = riders[q]]_vars

C21_Witness ==
    \E d \in Ids, r \in Riders, q \in Riders :
        /\ q # r
        /\ task[d].pc = "commit"
        /\ task[d].rider = r
        /\ riders[r].status = "busy"
        /\ riders[r].locked_for_delivery = d
        /\ riders[r].locked_at # NoTime
        /\ riders[q].exists
        /\ riders[q].status = "available"
        /\ riders[q].locked_for_delivery = NoDelivery
        /\ \E e \in Ids : task[e].pc = "sleep" /\ Len(task[e].log) = 1

\* C22: a failure of the rider notification after the delivery was committed
\* changes neither the delivery nor the rider: the steps the loop takes after
\* the failure leave the delivery rider_assigned and the rider as locked as
\* it was.
C22_NotifierFailureHarmless ==
    [][\A d \in Ids :
          (task[d].pc = "release_error" /\ LoopAction(d)) =>
              /\ deliveries'[d] = deliveries[d]
              /\ riders'[task[d].rider] = riders[task[d].rider]]_vars

\* C23: the total of every quote, for every distance, vehicle type and hour,
\* is at least the minimum fee and at most the maximum fee.
C23_TotalWithinBounds ==
    quote # NoQuote => (MIN_FEE <= quote.total /\ quote.total <= MAX_FEE)

C23_Witness ==
    /\ quote # NoQuote
    /\ ((quote.base_fee + quote.distance_cost) * quote.surge_multiplier) \div 10 > MAX_FEE
    /\ quote.total = MAX_FEE

\* C24: of two quotes in a row for the same vehicle type at the same hour,
\* the one for the longer distance has the higher or the same total.
C24_TotalMonotonic ==
    [][(/\ quote # NoQuote
        /\ quote' # NoQuote
        /\ quote'.vehicle_type = quote.vehicle_type
        /\ quote'.hour = quote.hour
        /\ quote.distance_km <= quote'.distance_km) => quote.total <= quote'.total]_vars

C24_Witness ==
    /\ quote # NoQuote
    /\ quote.distance_km > LONG_DISTANCE_KM
    /\ MIN_FEE < quote.total
    /\ quote.total < MAX_FEE

C26_ZeroDistanceIsBaseFee ==
    (quote # NoQuote /\ quote.distance_km = 0) =>
        /\ quote.distance_cost = 0
        /\ quote.total = (IF quote.base_fee > MIN_FEE THEN quote.base_fee ELSE MIN_FEE)

\* C26 amended: at distance 0 the distance cost is 0 and the total is the
\* base fee times the surge multiplier in force, raised to the minimum fee;
\* outside the peak hours that is the larger of the base fee and the minimum
\* fee.
C26_ZeroDistanceIsSurgedBaseFee ==
    (quote # NoQuote /\ quote.distance_km = 0) =>
        LET surged == (quote.base_fee * quote.surge_multiplier) \div 10
        IN  /\ quote.distance_cost = 0
            /\ quote.total = (IF surged > MIN_FEE THEN surged ELSE MIN_FEE)
            /\ quote.surge_multiplier = 10 =>
                  quote.total = (IF quote.base_fee > MIN_FEE THEN quote.base_fee ELSE MIN_FEE)

C26_Witness ==
    /\ quote # NoQuote
    /\ quote.distance_km = 0
    /\ quote.surge_multiplier = 13
    /\ quote.vehicle_type = "walking"
    /\ quote.total > MIN_FEE

\* C27: the exhaustion step changes a delivery only while it is pending: a
\* delivery that was accepted, or cancelled for another reason, during the
\* backoff keeps its status, its rider and its reason.
C27_ExhaustOnlyWhilePending ==
    [][\A d \in Ids :
         (LoopExhaust(d) /\ Status(d) # "pending") => deliveries'[d] = deliveries[d]]_vars

\* C28: once the loop of a delivery has finished, every rider that is busy and
\* locked for the delivery is the delivery's rider.
C28_LockAgreesWithAssignment ==
    \A d \in Ids :
        task[d].pc = "done" =>
            \A r \in Riders : LockedFor(r, d) => deliveries[d].rider_id = r

Released(r) ==
    /\ riders[r].exists
    /\ riders[r].status = "available"
    /\ riders[r].locked_for_delivery = NoDelivery
    /\ riders[r].locked_at = NoTime

\* C29: when a delivery whose rider is locked for it is delivered or
\* cancelled, that rider is eventually available with cleared lock fields.
C29_LockDoesNotOutliveDelivery ==
    \A d \in 1..MaxDeliveries, r \in Riders :
        (/\ d \in Ids
         /\ Status(d) \in {"delivered", "cancelled"}
         /\ deliveries[d].rider_id = r
         /\ LockedFor(r, d)) ~> Released(r)

\* C30: every assignment loop that was started terminates, and the delivery
\* of a terminated loop is not pending.
C30_LoopTerminates ==
    /\ \A d \in 1..MaxDeliveries : (d \in Ids) ~> (d \in Ids /\ task[d].pc = "done")
    /\ [](\A d \in Ids : task[d].pc = "done" => Status(d) # "pending")

C30_Witness ==
    \E d \in Ids :
        /\ task[d].pc = "done"
        /\ task[d].result = "rolled_back"
        /\ Status(d) = "rider_assigned"
====
